---- MODULE Spec2Model ----
(***************************************************************************)
(* A model of the CShell command interpreter (src/main.c): the read /      *)
(* tokenize / dispatch / launch cycle of loop(), the three builtins, the   *)
(* tokenizer split_line() and the child-process lifecycle of launch().     *)
(*                                                                         *)
(* A C string is a sequence of one-character strings; C index i is TLA+    *)
(* index i + 1.  The bell character '\a' is written "BEL".                 *)
(***************************************************************************)
EXTENDS Integers, Sequences, FiniteSets, TLC

VARIABLES
    pc,             \* where the shell process is in loop()/launch()
    line,           \* loop(): char *line, the buffer read_line() returned
    args,           \* loop(): char **args, the array split_line() returned
    status,         \* loop(): int status, the result of execute()
    pid,            \* launch(): pid_t pid
    launch_status,  \* launch(): int status, written by waitpid()
    children,       \* the process table: the shell's children, by pid
    cwd,            \* the shell's current working directory
    exit_code,      \* the shell's exit code once it has terminated
    sigchld_ign,    \* the disposition of SIGCHLD inherited at exec is SIG_IGN
    diag,           \* messages written to stderr since the last prompt
    sysfail,        \* system operations that failed since the last prompt
    route,          \* what execute() did with the current command
    handler,        \* index of the builtin handler that is running (0: none)
    ran,            \* index of the builtin handler that ran since the prompt
    forks,          \* children created since the last prompt
    waited,         \* waitpid() was called since the last prompt
    last_wait,      \* what the last waitpid() of this launch() reported
    child_fate,     \* what the child of this launch() did: its exec, its end
    interactive,    \* stdin and stdout are a terminal (else a pipe or a file)
    out_buf,        \* the shell's stdio buffer of stdout: text not yet written
    out,            \* text that reached the output stream since the prompt
    pend0,          \* what out_buf held when the last prompt was printed
    printed,        \* text the shell passed to printf from the prompt on
    held,           \* the heap buffers of loop() that are allocated
    frees,          \* how often each was freed since the last prompt
    cwd0,           \* the working directory at the last prompt
    want_cwd,       \* the target of the last cd command to a directory
    exit_via        \* the way the shell terminated

vars == <<pc, line, args, status, pid, launch_status, children, cwd,
          exit_code, sigchld_ign, diag, sysfail, route, handler, ran, forks,
          waited, last_wait, child_fate, interactive, out_buf, out, pend0,
          printed, held, frees, cwd0, want_cwd, exit_via>>

\* the variables of standard output, and of the heap
stdioVars == <<out_buf, out, pend0, printed>>

heapVars == <<held, frees>>

-----------------------------------------------------------------------------
(* Bounds of the model.                                                    *)

\* longest line the tokenizer specification enumerates
MaxLen == 4

\* the pieces of text the stdio buffer of stdout holds before it is full
OutCap == 2

-----------------------------------------------------------------------------
(* Strings and the token array.                                            *)

\* src/main.c:149  #define TOKEN_DELIM " \t\r\n\a"
TOKEN_DELIM_NoTab == <<" ", "\r", "\n", "BEL">>

TOKEN_DELIM == <<" ", "\t", "\r", "\n", "BEL">>

\* src/main.c:148
TOKEN_BUFSIZE == 64

\* an element of a char* array: a string, the null pointer, or a slot that
\* malloc/realloc returned and nobody wrote
Str(s) == [kind |-> "str", s |-> s]

NULL == [kind |-> "null", s |-> <<>>]

UNINIT == [kind |-> "uninit", s |-> <<>>]

\* strchr(delim, c) != NULL
IsDelim(c) == \E i \in 1..Len(TOKEN_DELIM) : TOKEN_DELIM[i] = c

\* strspn(s + i, delim): index of the first non-delimiter at or after i
RECURSIVE SkipDelims(_, _)
SkipDelims(s, i) ==
    IF i > Len(s) THEN i
    ELSE IF IsDelim(s[i]) THEN SkipDelims(s, i + 1) ELSE i

\* strcspn(s + i, delim): index of the first delimiter at or after i
RECURSIVE ScanToken(_, _)
ScanToken(s, i) ==
    IF i > Len(s) THEN i
    ELSE IF IsDelim(s[i]) THEN i ELSE ScanToken(s, i + 1)

\* a strtok that resumes on the delimiter it stopped at and returns the
\* empty string between two adjacent delimiters
strtok_NoSkip(s, save) ==
    IF save > Len(s) THEN [token |-> NULL, save |-> save]
    ELSE LET e == ScanToken(s, save)
         IN  [token |-> Str(SubSeq(s, save, e - 1)),
              save  |-> IF e > Len(s) THEN e ELSE e + 1]

\* strtok(): save is the saved position (1 on the first call).  Skips the
\* leading delimiters, returns NULL at the end of the string, else the token
\* up to the next delimiter, which it overwrites with NUL and steps over.
strtok(s, save) ==
    LET b == SkipDelims(s, save)
    IN  IF b > Len(s) THEN [token |-> NULL, save |-> b]
        ELSE LET e == ScanToken(s, b)
             IN  [token |-> Str(SubSeq(s, b, e - 1)),
                  save  |-> IF e > Len(s) THEN e ELSE e + 1]

\* the array after tokens[position] = v (position is the C index).  A store
\* at or past the capacity writes outside the allocation: the memory behind
\* the array is shown as further slots, the written one marked "oob".
Store(tokens, position, v) ==
    IF position < Len(tokens)
    THEN [tokens EXCEPT ![position + 1] = v]
    ELSE tokens \o [i \in 1..(position - Len(tokens)) |-> UNINIT]
                \o <<[kind |-> "oob", s |-> v.s]>>

\* malloc(n * sizeof(char*)): n slots nobody wrote
Fresh(n) == [i \in 1..n |-> UNINIT]

\* realloc(tokens, n * sizeof(char*)): the old slots kept, the new unwritten
Realloc(tokens, n) ==
    [i \in 1..n |-> IF i <= Len(tokens) THEN tokens[i] ELSE UNINIT]

\* src/main.c:183  tokens[position] = NULL
SplitEnd(tokens, position) == Store(tokens, position, NULL)

\* a capacity test that lets position reach bufsize before the array grows
NeedGrow_Late(position, bufsize) == position > bufsize

\* src/main.c:171  if (position >= bufsize)
NeedGrow(position, bufsize) == position >= bufsize

\* src/main.c:167-182  one round of the while loop of split_line on the
\* loop's variables st; a loop that has ended stays as it is.  allocs
\* counts the allocation calls made so far, failAt is the call that returns
\* NULL (0: none does).
SplitStep(s, st, failAt) ==
    IF st.done THEN st
    ELSE IF st.tok.token = NULL
    THEN [st EXCEPT !.tokens = SplitEnd(st.tokens, st.position),
                    !.done = TRUE]
    ELSE LET stored == Store(st.tokens, st.position, st.tok.token)
             pos1   == st.position + 1
         IN  IF NeedGrow(pos1, st.bufsize)
             THEN IF st.allocs + 1 = failAt
                  THEN [st EXCEPT !.ok = FALSE, !.done = TRUE,
                                  !.tokens = <<>>, !.position = pos1,
                                  !.bufsize = st.bufsize + TOKEN_BUFSIZE]
                  ELSE [st EXCEPT
                           !.tok = strtok(s, st.tok.save),
                           !.tokens = Realloc(stored,
                                              st.bufsize + TOKEN_BUFSIZE),
                           !.position = pos1,
                           !.bufsize = st.bufsize + TOKEN_BUFSIZE,
                           !.allocs = st.allocs + 1]
             ELSE [st EXCEPT !.tok = strtok(s, st.tok.save),
                             !.tokens = stored,
                             !.position = pos1]

\* the loop's variables after at most n rounds of the while loop, the
\* rounds taken half by half
RECURSIVE SplitLoop(_, _, _, _)
SplitLoop(s, st, failAt, n) ==
    IF st.done \/ n = 0 THEN st
    ELSE IF n = 1 THEN SplitStep(s, st, failAt)
    ELSE SplitLoop(s, SplitLoop(s, st, failAt, n \div 2), failAt,
                   n - (n \div 2))

\* src/main.c:155-185  the loop runs once for every token and once more for
\* the NULL strtok ends with, at most Len(s) + 1 rounds
split_line(s, failAt) ==
    IF failAt = 1
    THEN [ok |-> FALSE, tokens |-> <<>>, position |-> 0,
          bufsize |-> TOKEN_BUFSIZE]
    ELSE LET r == SplitLoop(s,
                            [tok |-> strtok(s, 1),
                             tokens |-> Fresh(TOKEN_BUFSIZE),
                             position |-> 0, bufsize |-> TOKEN_BUFSIZE,
                             allocs |-> 1, ok |-> TRUE, done |-> FALSE],
                            failAt, Len(s) + 1)
         IN  [ok |-> r.ok, tokens |-> r.tokens, position |-> r.position,
              bufsize |-> r.bufsize]

\* the allocation calls split_line makes for s when none fails: the malloc
\* and one realloc for every TOKEN_BUFSIZE tokens
AllocCalls(s) == split_line(s, 0).bufsize \div TOKEN_BUFSIZE

-----------------------------------------------------------------------------
(* The builtin registry.                                                   *)

\* src/main.c:15-19
builtin_str ==
    << <<"c", "d">>, <<"h", "e", "l", "p">>, <<"e", "x", "i", "t">> >>

\* a handler table that lists the handlers in another order than the names
builtin_func_Swapped == <<"cd", "exit_shell", "help">>

\* src/main.c:21-25
builtin_func == <<"cd", "help", "exit_shell">>

\* src/main.c:27-29
num_of_builtins == Len(builtin_str)

\* a comparison that stops at the end of b: strncmp(a, b, strlen(b))
strcmp_Prefix(a, b) ==
    IF Len(a) >= Len(b) /\ SubSeq(a, 1, Len(b)) = b THEN 0 ELSE 1

\* strcmp(a, b): 0 when the strings are equal, non-zero (here 1) otherwise
RECURSIVE strcmp(_, _)
strcmp(a, b) ==
    IF a = <<>> \/ b = <<>> THEN (IF a = b THEN 0 ELSE 1)
    ELSE IF Head(a) # Head(b) THEN 1
    ELSE strcmp(Tail(a), Tail(b))

\* src/main.c:124-128: the first i with strcmp(args[0], builtin_str[i]) == 0,
\* 0 when the loop ends without one
FindBuiltin(name) ==
    LET hits == {i \in 1..num_of_builtins : strcmp(name, builtin_str[i]) = 0}
    IN  IF hits = {} THEN 0
        ELSE CHOOSE i \in hits : \A j \in hits : i <= j

-----------------------------------------------------------------------------
(* Wait statuses, as <sys/wait.h> encodes them in an int.                  *)

W_EXITCODE(ret) == ret * 256

W_TERMSIG(sig) == sig

W_STOPCODE(sig) == sig * 256 + 127

WIFEXITED(s) == (s % 128) = 0

WIFSIGNALED(s) == (s % 128) \notin {0, 127}

WIFSTOPPED(s) == (s % 256) = 127

\* src/main.c:97, 142, 163, 178
EXIT_FAILURE == 1

\* src/main.c:139, 218
EXIT_SUCCESS == 0

\* statuses an external program may exit with
ExitCodes == {0, 1}

\* signals that end a process (SIGKILL, SIGTERM) and that stop it (SIGSTOP)
TermSignals == {9, 15}

StopSignals == {19}

\* launch() declares int status without a value: what the stack slot may
\* hold, one value of each class the loop condition tells apart
GarbageStatus == {W_EXITCODE(0), W_TERMSIG(9), W_STOPCODE(19)}

-----------------------------------------------------------------------------
(* The environment: standard input and the file system.                    *)

\* lines getline() may deliver to the shell, as typed (with their newline)
Lines ==
    { <<"\n">>,
      <<" ", "\t", "\n">>,
      <<"c", "d", "\n">>,
      <<"c", "d", " ", "/", "\n">>,
      <<"c", "d", " ", "/", "x", "\n">>,
      <<"c", "d", " ", "/", "t", "\n">>,
      <<"c", "d", " ", "/", " ", "/", "x", "\n">>,
      <<"c", "d", " ", "/", "x", " ", "/", "\n">>,
      <<"h", "e", "l", "p", " ", "c", "d", "\n">>,
      <<"C", "D", " ", "/", "\n">>,
      <<"c", "d", "x", " ", "/", "\n">>,
      <<"c", "\n">>,
      <<"h", "e", "l", "p", "\n">>,
      <<"e", "x", "i", "t", "\n">>,
      <<"e", "x", "i", "t", " ", "n", "o", "w", "\n">>,
      <<" ", "e", "x", "i", "t">>,
      <<"E", "x", "i", "t", "\n">>,
      <<"e", "x", "i", "t", "x", "\n">>,
      <<"l", "s", " ", "e", "x", "i", "t", "\n">>,
      <<"l", "s", "\n">> }

\* the directories chdir() can enter
Dirs == { <<"/">>, <<"/", "t">> }

\* the directory the shell is started in
InitCwd == <<"/", "t">>

\* chdir(path): 0 on success, -1 when the directory cannot be entered
chdir(path) == IF path \in Dirs THEN 0 ELSE -1

\* the characters of the lines the tokenizer specification enumerates: the
\* five delimiters and two others
Chars == {" ", "\t", "\r", "\n", "BEL", "c", "d"}

RECURSIVE SeqsUpTo(_, _)
SeqsUpTo(S, n) ==
    IF n = 0 THEN {<<>>}
    ELSE LET shorter == SeqsUpTo(S, n - 1)
         IN  shorter \cup {Append(s, c) : s \in shorter, c \in S}

\* every line of at most MaxLen characters
BoundedLines == SeqsUpTo(Chars, MaxLen)

\* most tokens of a line the capacity specification enumerates
MaxTokens == 130

\* the decimal digits
Digit == <<"0", "1", "2", "3", "4", "5", "6", "7", "8", "9">>

\* the k-th token of a long line: k in three digits
Tok(k) ==
    <<Digit[((k \div 100) % 10) + 1], Digit[((k \div 10) % 10) + 1],
      Digit[(k % 10) + 1]>>

\* the line of the tokens Tok(1) .. Tok(n), a blank after each but the last,
\* ended by the newline
LongLine(n) ==
    [p \in 1..(4 * n) |->
        IF p = 4 * n THEN "\n"
        ELSE IF p % 4 = 0 THEN " "
        ELSE Tok(((p - 1) \div 4) + 1)[p % 4]] \o
    (IF n = 0 THEN <<"\n">> ELSE <<>>)

\* the lines of up to MaxTokens tokens
LongLines == {LongLine(n) : n \in 0..MaxTokens}

-----------------------------------------------------------------------------
(* The shell process.                                                      *)

\* the value of a variable that holds nothing yet, or no longer
None == "none"

\* nothing is known yet of the child of this launch()
NoFate == [exec |-> None, end |-> None, wstat |-> 0]

\* src/main.c:197  the text of printf("> ")
PromptText == <<">", " ">>

\* src/main.c:61  the text of printf("The following are builtin commands:\n")
HelpHeader == <<"The following are builtin commands:", "\n">>

\* a help() that prints the names with no indentation
HelpEntry_NoIndent(name) == name \o <<"\n">>

\* src/main.c:64  the text of printf("  %s\n", name)
HelpEntry(name) == <<" ", " ">> \o name \o <<"\n">>

\* printf(text) on stdout, whose buffer holds b while o has reached the
\* stream: a full buffer is written out first; the text is buffered, and a
\* terminal's line-buffered stdout is written out at the newline
Printf(b, o, text) ==
    LET full == Len(b) >= OutCap
        b1   == IF full THEN <<text>> ELSE Append(b, text)
        o1   == IF full THEN o \o b ELSE o
    IN  IF interactive /\ text[Len(text)] = "\n"
        THEN [buf |-> <<>>, out |-> o1 \o b1]
        ELSE [buf |-> b1, out |-> o1]

\* the printf calls of texts, one after the other
RECURSIVE PrintAll(_, _, _)
PrintAll(b, o, texts) ==
    IF texts = <<>> THEN [buf |-> b, out |-> o]
    ELSE LET p == Printf(b, o, Head(texts))
         IN  PrintAll(p.buf, p.out, Tail(texts))

\* exit(), or the return of main(): stdio writes out what stdout buffers
ExitFlush ==
    /\ out' = out \o out_buf
    /\ out_buf' = <<>>

\* no buffer was freed
NoFrees == [line |-> 0, tokens |-> 0]

\* the observations of one iteration start empty
NoObs ==
    /\ diag' = <<>>
    /\ sysfail' = {}
    /\ route' = None
    /\ ran' = 0
    /\ forks' = 0
    /\ waited' = FALSE
    /\ last_wait' = None
    /\ child_fate' = NoFate

Init ==
    /\ pc = "prompt"
    /\ line = <<>>
    /\ args = <<>>
    /\ status = None
    /\ pid = 0
    /\ launch_status \in GarbageStatus
    /\ children = {}
    /\ cwd = InitCwd
    /\ exit_code = None
    /\ sigchld_ign \in BOOLEAN
    /\ diag = <<>>
    /\ sysfail = {}
    /\ route = None
    /\ handler = 0
    /\ ran = 0
    /\ forks = 0
    /\ waited = FALSE
    /\ last_wait = None
    /\ child_fate = NoFate
    /\ interactive \in BOOLEAN
    /\ out_buf = <<>>
    /\ out = <<>>
    /\ pend0 = <<>>
    /\ printed = <<>>
    /\ held = {}
    /\ frees = NoFrees
    /\ cwd0 = InitCwd
    /\ want_cwd = InitCwd
    /\ exit_via = None

\* src/main.c:197  printf("> "): a new iteration of loop() starts
Prompt ==
    /\ pc = "prompt"
    /\ pc' = "read_line"
    /\ NoObs
    /\ LET p == Printf(out_buf, <<>>, PromptText)
       IN  out_buf' = p.buf /\ out' = p.out
    /\ pend0' = out_buf
    /\ printed' = <<PromptText>>
    /\ frees' = NoFrees
    /\ cwd0' = cwd
    /\ UNCHANGED <<line, args, status, pid, launch_status, children, cwd,
                   exit_code, sigchld_ign, handler, interactive, held,
                   want_cwd, exit_via>>

\* getline() on a terminal: stdio first writes out the line-buffered stdout
ReadFlush ==
    IF interactive THEN ExitFlush ELSE UNCHANGED <<out_buf, out>>

\* a read_line() that reports the end of input as a failure
ReadEof_Failure ==
    /\ pc' = "exited"
    /\ exit_code' = EXIT_FAILURE
    /\ exit_via' = "eof"
    /\ ExitFlush
    /\ UNCHANGED <<line, diag, sysfail>>

\* src/main.c:137-139  getline() == -1 and feof(stdin): exit(EXIT_SUCCESS)
ReadEof ==
    /\ pc' = "exited"
    /\ exit_code' = EXIT_SUCCESS
    /\ exit_via' = "eof"
    /\ ExitFlush
    /\ UNCHANGED <<line, diag, sysfail>>

\* a read_line() that exits with success after a read error
ReadError_Success ==
    /\ diag' = Append(diag, "Error: readline error")
    /\ sysfail' = sysfail \cup {"getline"}
    /\ pc' = "exited"
    /\ exit_code' = EXIT_SUCCESS
    /\ exit_via' = "read_error"
    /\ ExitFlush
    /\ UNCHANGED line

\* src/main.c:140-143  getline() == -1 otherwise: perror, exit(EXIT_FAILURE)
ReadError ==
    /\ diag' = Append(diag, "Error: readline error")
    /\ sysfail' = sysfail \cup {"getline"}
    /\ pc' = "exited"
    /\ exit_code' = EXIT_FAILURE
    /\ exit_via' = "read_error"
    /\ ExitFlush
    /\ UNCHANGED line

\* src/main.c:132-146  read_line(): a line, end of input, or a read error.
\* getline() allocates the line buffer before it reads, so the buffer is
\* held also when getline() returns -1.
read_line ==
    /\ pc = "read_line"
    /\ \/ /\ \E l \in Lines : line' = l
          /\ pc' = "split_line"
          /\ ReadFlush
          /\ UNCHANGED <<exit_code, exit_via, diag, sysfail>>
       \/ ReadEof
       \/ ReadError
    /\ held' = held \cup {"line"}
    /\ UNCHANGED <<args, status, pid, launch_status, children, cwd,
                   sigchld_ign, route, handler, ran, forks, waited, last_wait,
                   child_fate, interactive, pend0, printed, frees, cwd0,
                   want_cwd>>

\* src/main.c:199, 155-185  args = split_line(line); an allocation may fail
SplitLine ==
    /\ pc = "split_line"
    /\ \E failAt \in 0..AllocCalls(line) :
         LET r == split_line(line, failAt)
         IN  \/ /\ r.ok
                /\ args' = r.tokens
                /\ pc' = "execute"
                /\ held' = held \cup {"tokens"}
                /\ UNCHANGED <<exit_code, diag, sysfail, exit_via, out_buf,
                               out, frees>>
             \/ /\ ~r.ok
                /\ diag' = Append(diag, "Error: Allocation error\n")
                /\ sysfail' = sysfail \cup {"malloc"}
                /\ pc' = "exited"
                /\ exit_code' = EXIT_FAILURE
                /\ exit_via' = "alloc"
                /\ frees' = IF failAt > 1
                            THEN [frees EXCEPT !.tokens = @ + 1]
                            ELSE frees
                /\ ExitFlush
                /\ UNCHANGED <<args, held>>
    /\ UNCHANGED <<line, status, pid, launch_status, children, cwd,
                   sigchld_ign, route, handler, ran, forks, waited, last_wait,
                   child_fate, interactive, pend0, printed, cwd0, want_cwd>>

\* the directory a command line asks the shell to move to: the argument of
\* a cd command when it names a directory, else the directory d it is in
Target(a, d) ==
    IF /\ a[1] = Str(<<"c", "d">>)
       /\ a[2] # NULL
       /\ a[2].s \in Dirs
    THEN a[2].s
    ELSE d

\* src/main.c:115-130  execute(): the empty command, a builtin, or launch()
execute ==
    /\ pc = "execute"
    /\ IF args[1] = NULL
       THEN /\ status' = 1
            /\ route' = "empty"
            /\ pc' = "free"
            /\ UNCHANGED handler
       ELSE LET i == FindBuiltin(args[1].s)
            IN  IF i # 0
                THEN /\ handler' = i
                     /\ route' = "builtin"
                     /\ pc' = "builtin"
                     /\ UNCHANGED status
                ELSE /\ route' = "launch"
                     /\ pc' = "launch"
                     /\ UNCHANGED <<status, handler>>
    /\ want_cwd' = Target(args, want_cwd)
    /\ UNCHANGED <<line, args, pid, launch_status, children, cwd, exit_code,
                   sigchld_ign, diag, sysfail, ran, forks, waited, last_wait,
                   child_fate, interactive, stdioVars, heapVars, cwd0,
                   exit_via>>

\* a cd that moves to the root when its argument is no directory
cd_FallsBackToRoot ==
    /\ builtin_func[handler] = "cd"
    /\ IF args[2] = NULL
       THEN /\ diag' = Append(diag, "Error: Please specify a directory")
            /\ sysfail' = sysfail \cup {"cd_noarg"}
            /\ UNCHANGED cwd
       ELSE IF chdir(args[2].s) # 0
            THEN /\ diag' = Append(diag, "Error: Failed to change directory")
                 /\ sysfail' = sysfail \cup {"chdir"}
                 /\ cwd' = <<"/">>
            ELSE /\ cwd' = args[2].s
                 /\ UNCHANGED <<diag, sysfail>>
    /\ status' = 1
    /\ UNCHANGED <<out_buf, out, printed>>

\* a cd whose successful chdir() leaves the working directory as it was
cd_NoChange ==
    /\ builtin_func[handler] = "cd"
    /\ IF args[2] = NULL
       THEN /\ diag' = Append(diag, "Error: Please specify a directory")
            /\ sysfail' = sysfail \cup {"cd_noarg"}
       ELSE IF chdir(args[2].s) # 0
            THEN /\ diag' = Append(diag, "Error: Failed to change directory")
                 /\ sysfail' = sysfail \cup {"chdir"}
            ELSE UNCHANGED <<diag, sysfail>>
    /\ status' = 1
    /\ UNCHANGED <<cwd, out_buf, out, printed>>

\* src/main.c:39-50
cd ==
    /\ builtin_func[handler] = "cd"
    /\ IF args[2] = NULL
       THEN /\ diag' = Append(diag, "Error: Please specify a directory")
            /\ sysfail' = sysfail \cup {"cd_noarg"}
            /\ UNCHANGED cwd
       ELSE IF chdir(args[2].s) # 0
            THEN /\ diag' = Append(diag, "Error: Failed to change directory")
                 /\ sysfail' = sysfail \cup {"chdir"}
                 /\ UNCHANGED cwd
            ELSE /\ cwd' = args[2].s
                 /\ UNCHANGED <<diag, sysfail>>
    /\ status' = 1
    /\ UNCHANGED <<out_buf, out, printed>>

\* the texts help() passes to printf, in order
HelpTexts ==
    <<HelpHeader>> \o [i \in 1..num_of_builtins |-> HelpEntry(builtin_str[i])]

\* src/main.c:58-67
help ==
    /\ builtin_func[handler] = "help"
    /\ LET p == PrintAll(out_buf, out, HelpTexts)
       IN  out_buf' = p.buf /\ out' = p.out
    /\ printed' = printed \o HelpTexts
    /\ status' = 1
    /\ UNCHANGED <<cwd, diag, sysfail>>

\* src/main.c:75-78
exit_shell ==
    /\ builtin_func[handler] = "exit_shell"
    /\ status' = 0
    /\ UNCHANGED <<cwd, diag, sysfail, out_buf, out, printed>>

\* src/main.c:126  return (*builtin_func[i])(args): the handler runs and
\* returns
Builtin ==
    /\ pc = "builtin"
    /\ cd \/ help \/ exit_shell
    /\ ran' = handler
    /\ handler' = 0
    /\ pc' = "free"
    /\ UNCHANGED <<line, args, pid, launch_status, children, exit_code,
                   sigchld_ign, route, forks, waited, last_wait, child_fate,
                   interactive, pend0, heapVars, cwd0, want_cwd, exit_via>>

\* the smallest process id no child of the shell has
FreePid == CHOOSE p \in 1..(Cardinality(children) + 1) :
               /\ \A c \in children : c.pid # p
               /\ \A q \in 1..(p - 1) : \E c \in children : c.pid = q

\* a launch() whose fork-failure branch runs into the wait loop
ForkFailed_Waits ==
    /\ pid' = -1
    /\ diag' = Append(diag, "Error: Forking process failed")
    /\ sysfail' = sysfail \cup {"fork"}
    /\ pc' = "waitpid"
    /\ UNCHANGED <<children, forks, launch_status, status>>

\* src/main.c:98-100, 107  pid < 0: perror(...), then return 1
ForkFailed ==
    /\ pid' = -1
    /\ diag' = Append(diag, "Error: Forking process failed")
    /\ sysfail' = sysfail \cup {"fork"}
    /\ status' = 1
    /\ pc' = "free"
    /\ UNCHANGED <<children, forks, launch_status>>

\* src/main.c:86-102  fork(): no child and a diagnostic, or one child that
\* starts at line 92 while the parent goes on to wait for it; the parent's
\* int status holds whatever the stack held
launch ==
    /\ pc = "launch"
    /\ \/ ForkFailed
       \/ /\ pid' = FreePid
          /\ children' = children \cup
                 {[pid |-> FreePid, cpc |-> "execvp", stopped |-> FALSE,
                   reported |-> FALSE, wstat |-> 0, cwd |-> cwd,
                   buf |-> out_buf]}
          /\ forks' = forks + 1
          /\ launch_status' \in GarbageStatus
          /\ pc' = "waitpid"
          /\ UNCHANGED <<diag, sysfail, status>>
    /\ UNCHANGED <<line, args, cwd, exit_code, sigchld_ign, route, handler,
                   ran, waited, last_wait, child_fate, interactive, stdioVars,
                   heapVars, cwd0, want_cwd, exit_via>>

\* the process table once child c has terminated with wait status w: c stays
\* as a zombie until it is waited for, unless SIGCHLD is ignored, when the
\* kernel reaps it at once
Terminated(c, w) ==
    IF sigchld_ign THEN children \ {c}
    ELSE (children \ {c}) \cup
         {[c EXCEPT !.cpc = "zombie", !.stopped = FALSE, !.wstat = w]}

\* a child that goes on after the failed execvp: it leaves launch() with
\* return 1 and runs the code of loop()
ExecFailed_FallThrough(c) ==
    /\ children' = (children \ {c}) \cup {[c EXCEPT !.cpc = "ret_launch"]}
    /\ child_fate' = [child_fate EXCEPT !.exec = "failed"]
    /\ UNCHANGED out

\* src/main.c:95-97  perror(...) was written; exit(EXIT_FAILURE), which
\* writes out the copy of the stdout buffer the child got at fork()
ExecFailed(c) ==
    /\ children' = Terminated(c, W_EXITCODE(EXIT_FAILURE))
    /\ child_fate' = [exec |-> "failed", end |-> "exited",
                      wstat |-> W_EXITCODE(EXIT_FAILURE)]
    /\ out' = out \o c.buf

\* src/main.c:92-97  the child: execvp() replaces the image, or fails
ChildExec ==
    \E c \in children :
        /\ c.cpc = "execvp"
        /\ ~c.stopped
        /\ \/ /\ children' = (children \ {c}) \cup {[c EXCEPT !.cpc = "image"]}
              /\ child_fate' = [child_fate EXCEPT !.exec = "ok"]
              /\ UNCHANGED <<diag, sysfail, out>>
           \/ /\ diag' = Append(diag, "Error: Child process failed")
              /\ sysfail' = sysfail \cup {"execvp"}
              /\ ExecFailed(c)
        /\ UNCHANGED <<pc, line, args, status, pid, launch_status, cwd,
                       exit_code, sigchld_ign, route, handler, ran, forks,
                       waited, last_wait, interactive, out_buf, pend0, printed,
                       heapVars, cwd0, want_cwd, exit_via>>

\* the launched program exits with a status of its own
ChildExit ==
    \E c \in children, code \in ExitCodes :
        /\ c.cpc = "image"
        /\ ~c.stopped
        /\ children' = Terminated(c, W_EXITCODE(code))
        /\ child_fate' = [child_fate EXCEPT !.end = "exited",
                                            !.wstat = W_EXITCODE(code)]
        /\ UNCHANGED <<pc, line, args, status, pid, launch_status, cwd,
                       exit_code, sigchld_ign, diag, sysfail, route, handler,
                       ran, forks, waited, last_wait, interactive, stdioVars,
                       heapVars, cwd0, want_cwd, exit_via>>

\* a signal kills the child (only SIGKILL reaches a stopped process)
ChildKilled ==
    \E c \in children, sig \in TermSignals :
        /\ c.cpc \in {"execvp", "image"}
        /\ c.stopped => sig = 9
        /\ children' = Terminated(c, W_TERMSIG(sig))
        /\ child_fate' = [child_fate EXCEPT !.end = "signaled",
                                            !.wstat = W_TERMSIG(sig)]
        /\ UNCHANGED <<pc, line, args, status, pid, launch_status, cwd,
                       exit_code, sigchld_ign, diag, sysfail, route, handler,
                       ran, forks, waited, last_wait, interactive, stdioVars,
                       heapVars, cwd0, want_cwd, exit_via>>

\* a stop signal suspends the child; the stop is not yet reported
ChildStopped ==
    \E c \in children :
        /\ c.cpc \in {"execvp", "image"}
        /\ ~c.stopped
        /\ children' = (children \ {c}) \cup
               {[c EXCEPT !.stopped = TRUE, !.reported = FALSE]}
        /\ UNCHANGED <<pc, line, args, status, pid, launch_status, cwd,
                       exit_code, sigchld_ign, diag, sysfail, route, handler,
                       ran, forks, waited, last_wait, child_fate, interactive,
                       stdioVars, heapVars, cwd0, want_cwd, exit_via>>

\* SIGCONT resumes the stopped child
ChildContinued ==
    \E c \in children :
        /\ c.stopped
        /\ children' = (children \ {c}) \cup
               {[c EXCEPT !.stopped = FALSE, !.reported = FALSE]}
        /\ UNCHANGED <<pc, line, args, status, pid, launch_status, cwd,
                       exit_code, sigchld_ign, diag, sysfail, route, handler,
                       ran, forks, waited, last_wait, child_fate, interactive,
                       stdioVars, heapVars, cwd0, want_cwd, exit_via>>

\* a loop condition that takes a stopped child for a finished one
WaitAgain_StoppedEnds(st) == ~WIFEXITED(st) /\ ~WIFSIGNALED(st) /\ ~WIFSTOPPED(st)

\* a launch() that calls waitpid() once, with no loop around it
WaitAgain_Never(st) == FALSE

\* src/main.c:105  while (!WIFEXITED(status) && !WIFSIGNALED(status))
WaitAgain(st) == ~WIFEXITED(st) /\ ~WIFSIGNALED(st)

\* src/main.c:103-107  one round of the do-while: waitpid(pid, &status,
\* WUNTRACED) returns for a terminated child (and reaps it), for a stop not
\* yet reported, or with -1 when the shell has no such child (ECHILD), and
\* then leaves status as it was; otherwise it blocks.  Its return value is
\* not looked at.
waitpid ==
    /\ pc = "waitpid"
    /\ \/ \E c \in children :
            /\ c.pid = pid
            /\ c.cpc = "zombie"
            /\ launch_status' = c.wstat
            /\ children' = children \ {c}
            /\ last_wait' = IF WIFEXITED(c.wstat) THEN "exited" ELSE "signaled"
            /\ UNCHANGED sysfail
       \/ \E c \in children :
            /\ c.pid = pid
            /\ c.cpc # "zombie"
            /\ c.stopped
            /\ ~c.reported
            /\ \E sig \in StopSignals : launch_status' = W_STOPCODE(sig)
            /\ children' = (children \ {c}) \cup {[c EXCEPT !.reported = TRUE]}
            /\ last_wait' = "stopped"
            /\ UNCHANGED sysfail
       \/ /\ \A c \in children : c.pid # pid
          /\ sysfail' = sysfail \cup {"waitpid"}
          /\ last_wait' = "failed"
          /\ UNCHANGED <<launch_status, children>>
    /\ waited' = TRUE
    /\ IF WaitAgain(launch_status')
       THEN /\ pc' = "waitpid"
            /\ UNCHANGED status
       ELSE /\ pc' = "free"
            /\ status' = 1
    /\ UNCHANGED <<line, args, pid, cwd, exit_code, sigchld_ign, diag, route,
                   handler, ran, forks, child_fate, interactive, stdioVars,
                   heapVars, cwd0, want_cwd, exit_via>>

\* src/main.c:202-204, 216-218  free(line); free(args); while (status): the
\* next prompt, or loop() returns and main() returns EXIT_SUCCESS
Free ==
    /\ pc = "free"
    /\ line' = <<>>
    /\ args' = <<>>
    /\ held' = held \ {"line", "tokens"}
    /\ frees' = [b \in DOMAIN frees |-> frees[b] + 1]
    /\ IF status # 0
       THEN /\ pc' = "prompt"
            /\ UNCHANGED <<exit_code, exit_via, out_buf, out>>
       ELSE /\ pc' = "returned"
            /\ exit_code' = EXIT_SUCCESS
            /\ exit_via' = "return"
            /\ ExitFlush
    /\ UNCHANGED <<status, pid, launch_status, children, cwd, sigchld_ign,
                   diag, sysfail, route, handler, ran, forks, waited,
                   last_wait, child_fate, interactive, pend0, printed, cwd0,
                   want_cwd>>

Next ==
    \/ Prompt
    \/ read_line
    \/ SplitLine
    \/ execute
    \/ Builtin
    \/ launch
    \/ ChildExec
    \/ ChildExit
    \/ ChildKilled
    \/ ChildStopped
    \/ ChildContinued
    \/ waitpid
    \/ Free

Spec == Init /\ [][Next]_vars

-----------------------------------------------------------------------------
(* The tokenizer alone: split_line() applied to every line of at most      *)
(* MaxLen characters.                                                      *)

InitTok ==
    /\ pc = "split_line"
    /\ line \in BoundedLines
    /\ args = <<>>
    /\ status = None
    /\ pid = 0
    /\ launch_status = W_EXITCODE(0)
    /\ children = {}
    /\ cwd = InitCwd
    /\ exit_code = None
    /\ sigchld_ign = FALSE
    /\ diag = <<>>
    /\ sysfail = {}
    /\ route = None
    /\ handler = 0
    /\ ran = 0
    /\ forks = 0
    /\ waited = FALSE
    /\ last_wait = None
    /\ child_fate = NoFate
    /\ interactive = FALSE
    /\ out_buf = <<PromptText>>
    /\ out = <<>>
    /\ pend0 = <<>>
    /\ printed = <<PromptText>>
    /\ held = {"line"}
    /\ frees = NoFrees
    /\ cwd0 = InitCwd
    /\ want_cwd = InitCwd
    /\ exit_via = None

NextTok == SplitLine

SpecTok == InitTok /\ [][NextTok]_vars

-----------------------------------------------------------------------------
(* The token array's capacity: split_line() applied to lines of up to      *)
(* MaxTokens tokens, more than two times TOKEN_BUFSIZE.                    *)

InitGrow ==
    /\ pc = "split_line"
    /\ line \in LongLines
    /\ args = <<>>
    /\ status = None
    /\ pid = 0
    /\ launch_status = W_EXITCODE(0)
    /\ children = {}
    /\ cwd = InitCwd
    /\ exit_code = None
    /\ sigchld_ign = FALSE
    /\ diag = <<>>
    /\ sysfail = {}
    /\ route = None
    /\ handler = 0
    /\ ran = 0
    /\ forks = 0
    /\ waited = FALSE
    /\ last_wait = None
    /\ child_fate = NoFate
    /\ interactive = FALSE
    /\ out_buf = <<PromptText>>
    /\ out = <<>>
    /\ pend0 = <<>>
    /\ printed = <<PromptText>>
    /\ held = {"line"}
    /\ frees = NoFrees
    /\ cwd0 = InitCwd
    /\ want_cwd = InitCwd
    /\ exit_via = None

NextGrow == SplitLine

SpecGrow == InitGrow /\ [][NextGrow]_vars

-----------------------------------------------------------------------------
(* Vocabulary of the properties, from the specification's wording.         *)

\* the elements of a sequence
Range(f) == {f[i] : i \in DOMAIN f}

\* the delimiter characters: space, tab, carriage return, newline, bell
Delims == {" ", "\t", "\r", "\n", "BEL"}

\* the names of the three builtins
BuiltinNames == { <<"c", "d">>, <<"h", "e", "l", "p">>, <<"e", "x", "i", "t">> }

\* the number of strings before the first null pointer of array a, -1 when
\* a has no null pointer or something else than a string before it
Argc(a) ==
    LET ends == {n \in 0..(Len(a) - 1) :
                    /\ a[n + 1].kind = "null"
                    /\ \A i \in 1..n : a[i].kind = "str"}
    IN  IF ends = {} THEN -1 ELSE CHOOSE n \in ends : TRUE

\* the argument vector array a holds
Argv(a) == [i \in 1..Argc(a) |-> a[i].s]

\* the shell is at a point where nothing of a dispatch is in progress
AtPrompt == pc \in {"prompt", "read_line"}

\* launch() has returned to loop() after a fork that succeeded
LaunchReturned == pc = "free" /\ route = "launch" /\ pid > 0

-----------------------------------------------------------------------------
(* C1 - C8: the shell.                                                     *)

\* C1: in every reachable state at most one child of the shell is alive
\* (running, stopped or not yet reaped), and where loop() emits a prompt no
\* child is alive and no builtin handler is running.
C1_OneChildAndNoEarlyPrompt ==
    /\ Cardinality(children) <= 1
    /\ AtPrompt => children = {} /\ handler = 0

\* a prompt is due after a dispatch that created a child, which has ended
C1_Witness ==
    /\ pc = "prompt"
    /\ forks = 1
    /\ child_fate.end # None
    /\ children = {}

\* C2: a launch() whose fork succeeded has created exactly one child, and
\* when it returns that child is gone from the process table (no running,
\* stopped or zombie child), whether the exec succeeded or failed.
C2_OneChildFullyReaped ==
    /\ pc = "waitpid" => forks = 1 /\ Cardinality(children) <= 1
    /\ LaunchReturned =>
          /\ forks = 1
          /\ children = {}
          /\ child_fate.end \in {"exited", "signaled"}

\* launch() has returned after a child whose exec failed, reaped by waitpid
C2_Witness ==
    /\ LaunchReturned
    /\ child_fate.exec = "failed"
    /\ last_wait = "exited"
    /\ children = {}

C4_StopIffExit ==
    /\ pc = "free" =>
          /\ status \in {0, 1}
          /\ status = 0 <=>
                (args[1].kind = "str" /\ args[1].s = <<"e", "x", "i", "t">>)
    /\ pc = "returned" =>
          /\ status = 0
          /\ route = "builtin"
          /\ ran # 0
          /\ builtin_str[ran] = <<"e", "x", "i", "t">>

\* "exit now" was dispatched and yielded Stop
C4_Witness ==
    /\ pc = "free"
    /\ status = 0
    /\ args[2].kind = "str"

\* C5: a non-empty command runs a builtin handler, and creates no child,
\* exactly when argv[0] is one of cd, help, exit by exact match; every other
\* command goes to launch(), runs no handler and yields launch()'s signal.
C5_ExactMatchDispatch ==
    (pc \in {"builtin", "launch", "waitpid", "free"} /\ route # "empty") =>
        /\ route \in {"builtin", "launch"}
        /\ route = "builtin" <=> args[1].s \in BuiltinNames
        /\ route = "builtin" => forks = 0 /\ ~waited /\ children = {}
        /\ route = "launch" => ran = 0 /\ handler = 0
        /\ pc = "builtin" => route = "builtin" /\ builtin_str[handler] = args[1].s
        /\ pc \in {"launch", "waitpid"} => route = "launch"
        /\ (pc = "free" /\ route = "builtin") =>
              ran # 0 /\ builtin_str[ran] = args[1].s
        /\ (pc = "free" /\ route = "launch") => status = 1

\* "cdx /" went to launch(), which waits for its child
C5_Witness ==
    /\ pc = "waitpid"
    /\ args[1].s = <<"c", "d", "x">>
    /\ children # {}

\* C6: a child is only ever before its exec, running the new image, or
\* terminated, never in the code after launch(); a child whose exec failed
\* has written the diagnostic and exited with a non-zero status.
C6_ExecFailureEndsChild ==
    /\ \A c \in children : c.cpc \in {"execvp", "image", "zombie"}
    /\ child_fate.exec = "failed" =>
          /\ child_fate.end = "exited"
          /\ WIFEXITED(child_fate.wstat)
          /\ child_fate.wstat \div 256 # 0
          /\ "Error: Child process failed" \in Range(diag)
          /\ \A c \in children : c.cpc = "zombie"

\* the child's exec failed and it is a zombie the parent has yet to reap
C6_Witness ==
    /\ child_fate.exec = "failed"
    /\ pc = "waitpid"
    /\ \E c \in children : c.cpc = "zombie" /\ c.pid = pid

\* C7: when fork fails the failure is written to stderr, waitpid() is not
\* called, there is no child, and launch() returns Continue to loop().
C7_ForkFailure ==
    "fork" \in sysfail =>
        /\ "Error: Forking process failed" \in Range(diag)
        /\ pc \in {"free", "prompt"}
        /\ ~waited
        /\ children = {}
        /\ forks = 0
        /\ status = 1

\* after the failed fork the loop is about to prompt again
C7_Witness ==
    /\ pc = "prompt"
    /\ "fork" \in sysfail
    /\ route = "launch"

\* the diagnostics the source writes for a failed operation
DiagnosticsOf(f) ==
    CASE f = "cd_noarg" -> {"Error: Please specify a directory"}
      [] f = "chdir"    -> {"Error: Failed to change directory"}
      [] f = "execvp"   -> {"Error: Child process failed"}
      [] f = "fork"     -> {"Error: Forking process failed"}
      [] f = "getline"  -> {"Error: readline error"}
      [] f = "malloc"   -> {"Error: Allocation error\n"}
      [] OTHER          -> {}

\* C8: when the shell continues or exits after a system operation failed
\* (chdir, missing cd argument, execvp, fork, waitpid, getline, malloc or
\* realloc of the token array), a diagnostic for it has been written.
C8_NoErrorSwallowed ==
    pc \in {"free", "exited"} =>
        \A f \in sysfail : DiagnosticsOf(f) \cap Range(diag) # {}

-----------------------------------------------------------------------------
(* C9, C10: the tokenizer.                                                 *)

\* the substring of l before its first delimiter
UpToFirstDelim(l) ==
    LET at == {i \in 1..Len(l) : l[i] \in Delims}
    IN  IF at = {} THEN l
        ELSE SubSeq(l, 1, (CHOOSE i \in at : \A j \in at : i <= j) - 1)

\* l without its leading delimiters
RECURSIVE StripLeading(_)
StripLeading(l) ==
    IF l # <<>> /\ Head(l) \in Delims THEN StripLeading(Tail(l)) ELSE l

\* the strings of v joined with single spaces
RECURSIVE Join(_)
Join(v) ==
    IF v = <<>> THEN <<>>
    ELSE IF Len(v) = 1 THEN v[1]
    ELSE v[1] \o <<" ">> \o Join(Tail(v))

\* tokenizing the joined tokens of array a gives the tokens of a again
RoundTrip(a) == Argv(split_line(Join(Argv(a)), 0).tokens) = Argv(a)

\* C9 as stated: the first token is the substring of the line up to the first
\* delimiter run, and the tokens survive joining and tokenizing again.
C9_FirstTokenIsPrefix ==
    (pc = "execute" /\ Argc(args) >= 1) =>
        /\ Argv(args)[1] = UpToFirstDelim(line)
        /\ RoundTrip(args)

\* C9 as amended: the first token is the substring from the first
\* non-delimiter character of the line up to the next delimiter, and the
\* tokens survive joining with single spaces and tokenizing again.
C9_FirstTokenAfterLeadingDelims ==
    (pc = "execute" /\ Argc(args) >= 1) =>
        /\ Argv(args)[1] = UpToFirstDelim(StripLeading(line))
        /\ RoundTrip(args)

\* a line that starts with a delimiter and holds two tokens was tokenized
C9_Witness ==
    /\ pc = "execute"
    /\ Argc(args) = 2
    /\ line[1] \in Delims

\* the maximal runs of non-delimiters of l, as <<first, last>> positions
Runs(l) ==
    {r \in (1..Len(l)) \X (1..Len(l)) :
        /\ r[1] <= r[2]
        /\ \A i \in r[1]..r[2] : l[i] \notin Delims
        /\ r[1] = 1 \/ l[r[1] - 1] \in Delims
        /\ r[2] = Len(l) \/ l[r[2] + 1] \in Delims}

\* the k-th run of l from the left
RunAt(l, k) ==
    LET r == CHOOSE x \in Runs(l) :
                 Cardinality({y \in Runs(l) : y[1] < x[1]}) = k - 1
    IN  SubSeq(l, r[1], r[2])

\* C10: the array split_line returns holds, from the left, exactly the
\* maximal runs of non-delimiter characters of the line, each non-empty and
\* free of delimiters, and the null pointer right after the last; a line
\* without such a run gives the null pointer alone.
C10_TokensAreMaximalRuns ==
    pc = "execute" =>
        LET n == Cardinality(Runs(line))
        IN  /\ Argc(args) = n
            /\ \A k \in 1..n :
                  /\ args[k] = Str(RunAt(line, k))
                  /\ args[k].s # <<>>
                  /\ \A i \in 1..Len(args[k].s) : args[k].s[i] \notin Delims
            /\ args[n + 1] = NULL
            /\ (\A i \in 1..Len(line) : line[i] \in Delims) => args[1] = NULL

\* two tokens with a run of two delimiters between them were returned
C10_Witness ==
    /\ pc = "execute"
    /\ Argc(args) = 2
    /\ \E i \in 1..(Len(line) - 1) : line[i] \in Delims /\ line[i + 1] \in Delims
    /\ line[1] \notin Delims

-----------------------------------------------------------------------------
(* C11 - C18: one iteration of loop(), its output, its buffers.            *)

\* the first word of the command that was dispatched, <<>> when none
Command == IF Argc(args) >= 1 THEN args[1].s ELSE <<>>

\* dispatch has returned to loop(), which has not yet freed line and args
Dispatched == pc = "free"

\* what the shell wrote to stdout or holds for it is what was pending at the
\* prompt followed by what it printed since, each piece once
WrittenOnce == out \o out_buf = pend0 \o printed

\* C11: after the dispatch of a line that is empty or made of delimiter
\* characters only, the result is Continue, no child was created, no builtin
\* handler ran, the working directory is the one at the prompt, nothing was
\* written to stderr, and stdout got nothing but the prompt.
C11_BlankLineDoesNothing ==
    (Dispatched /\ \A i \in 1..Len(line) : line[i] \in Delims) =>
        /\ route = "empty"
        /\ status = 1
        /\ forks = 0
        /\ children = {}
        /\ ran = 0
        /\ cwd = cwd0
        /\ diag = <<>>
        /\ printed = <<PromptText>>
        /\ WrittenOnce

\* a line of a blank and a tab was dispatched
C11_Witness ==
    /\ Dispatched
    /\ line = <<" ", "\t", "\n">>
    /\ route = "empty"
    /\ status = 1

\* C12: after the dispatch of a cd command the result is Continue; with no
\* argument the working directory is unchanged and the missing argument is
\* reported on stderr; with an argument that chdir() refuses the working
\* directory is unchanged and the failure is reported; else the working
\* directory is the first argument and nothing is reported; further arguments
\* do not matter.
C12_CdFrame ==
    (Dispatched /\ Command = <<"c", "d">>) =>
        /\ status = 1
        /\ forks = 0
        /\ printed = <<PromptText>>
        /\ IF Argc(args) = 1
           THEN /\ cwd = cwd0
                /\ diag = <<"Error: Please specify a directory">>
           ELSE IF args[2].s \notin Dirs
           THEN /\ cwd = cwd0
                /\ diag = <<"Error: Failed to change directory">>
           ELSE /\ cwd = args[2].s
                /\ diag = <<>>

\* cd with a first argument that is no directory and a second that is one
\* left the working directory alone
C12_Witness ==
    /\ Dispatched
    /\ Command = <<"c", "d">>
    /\ Argc(args) = 3
    /\ args[2].s \notin Dirs
    /\ args[3].s \in Dirs
    /\ args[3].s # cwd0
    /\ cwd = cwd0

\* the lines of the names of the three builtins, with the indentation ind
NameLines(ind) ==
    << ind \o <<"c", "d", "\n">>,
       ind \o <<"h", "e", "l", "p", "\n">>,
       ind \o <<"e", "x", "i", "t", "\n">> >>

\* C13 as stated: help yields Continue and writes to stdout exactly the three
\* builtin names cd, help, exit, each on its own line, and nothing else; no
\* child, no change of the working directory, whatever its arguments.
C13_HelpEmitsOnlyNames ==
    (Dispatched /\ Command = <<"h", "e", "l", "p">>) =>
        /\ status = 1
        /\ printed = <<PromptText>> \o NameLines(<<>>)
        /\ diag = <<>>
        /\ forks = 0
        /\ cwd = cwd0

\* C13, amended: help yields Continue and writes to stdout the header line
\* "The following are builtin commands:" and then the three builtin names
\* cd, help, exit in this order, each on its own line behind two blanks;
\* nothing on stderr, no child, no change of the working directory, whatever
\* its arguments.
C13_HelpEmitsHeaderAndNames ==
    (Dispatched /\ Command = <<"h", "e", "l", "p">>) =>
        /\ status = 1
        /\ printed = <<PromptText,
                       <<"The following are builtin commands:", "\n">> >>
                     \o NameLines(<<" ", " ">>)
        /\ WrittenOnce
        /\ diag = <<>>
        /\ forks = 0
        /\ children = {}
        /\ cwd = cwd0

\* help with an argument has printed its listing
C13_Witness ==
    /\ Dispatched
    /\ Command = <<"h", "e", "l", "p">>
    /\ Argc(args) = 2
    /\ Len(printed) = 5

\* C14: when read_line() meets the end of input, the process is terminated
\* with the success status, and in this iteration nothing was tokenized, no
\* builtin handler ran and no child was created.
C14_EofExitsAtOnce ==
    exit_via = "eof" =>
        /\ pc = "exited"
        /\ exit_code = 0
        /\ args = <<>>
        /\ route = None
        /\ ran = 0
        /\ forks = 0
        /\ children = {}
        /\ diag = <<>>
        /\ cwd = cwd0

\* the end of input came after a cd command had changed the directory
C14_Witness ==
    /\ pc = "exited"
    /\ exit_via = "eof"
    /\ exit_code = 0
    /\ cwd # InitCwd

\* the shell process has terminated
Ended == pc \in {"exited", "returned"}

\* C15: the shell has terminated exactly when one of four events happened:
\* the exit builtin, the end of input, a failed token-array allocation, a
\* read error.  Its exit code is 0 exactly after the first two and non-zero
\* exactly after the last two; nothing a child does and no failed fork or
\* exec ends the shell.
C15_ExitCodeByCause ==
    /\ Ended <=> exit_via # None
    /\ ~Ended => exit_code = None
    /\ Ended =>
        /\ exit_via \in {"return", "eof", "alloc", "read_error"}
        /\ exit_code \in 0..255
        /\ exit_code = 0 <=> exit_via \in {"return", "eof"}
        /\ exit_code # 0 <=> exit_via \in {"alloc", "read_error"}
        /\ exit_via = "return" => (ran # 0 /\ builtin_str[ran] = <<"e", "x", "i", "t">>)
        /\ exit_via = "eof" => sysfail = {}
        /\ exit_via = "alloc" => sysfail = {"malloc"}
        /\ exit_via = "read_error" => sysfail = {"getline"}

\* a read error ended the shell with a failure code
C15_Witness ==
    /\ pc = "exited"
    /\ exit_via = "read_error"
    /\ exit_code = 1

\* C16: where an iteration has ended (the next prompt is due, or the process
\* has terminated) neither the line buffer nor the token array is still
\* held, and none was freed more than once.
C16_BuffersReleasedOnce ==
    (pc = "prompt" \/ Ended) =>
        /\ held = {}
        /\ \A b \in DOMAIN frees : frees[b] <= 1

\* C17: the working directory of every child is the target of the last cd
\* command that named a directory (the initial directory when there was
\* none), and so is the shell's own once the cd handler has run; no other
\* command changes it.
C17_ChildInheritsLastCd ==
    /\ \A c \in children : c.cwd = want_cwd
    /\ pc # "builtin" => cwd = want_cwd

\* a child runs in the directory an earlier cd command moved the shell to
C17_Witness ==
    /\ \E c \in children : c.cwd = <<"/">> /\ c.cpc = "image"
    /\ cwd0 = <<"/">>
    /\ InitCwd # <<"/">>

\* the child of this launch() has exited or was killed
ChildEnded == child_fate.end \in {"exited", "signaled"}

\* C18: launch() is not left while its child is alive, and once the child
\* has exited or was killed, the round of the wait loop that follows ends
\* the loop: launch() returns Continue and loop() goes on to its next prompt.
C18_LaunchReturnsOnceChildEnded ==
    [][/\ (pc = "waitpid" /\ pc' # "waitpid") => ChildEnded
       /\ (pc = "waitpid" /\ ChildEnded) => (pc' = "free" /\ status' = 1)]_vars

\* C19: every store into the token array is at an index below the capacity
\* the array has at that time, the capacity grows by TOKEN_BUFSIZE slots
\* when the tokens and the null pointer after them no longer fit, and no
\* token of the line is lost, whatever the number of tokens.
C19_StoresWithinCapacity ==
    pc = "execute" =>
        /\ Len(args) % TOKEN_BUFSIZE = 0
        /\ \A i \in 1..Len(args) : args[i].kind # "oob"
        /\ Argc(args) >= 0
        /\ Len(args) = TOKEN_BUFSIZE * ((Argc(args) \div TOKEN_BUFSIZE) + 1)
        /\ \A n \in 0..MaxTokens :
              line = LongLine(n) =>
                  /\ Argc(args) = n
                  /\ \A k \in 1..n : args[k] = Str(Tok(k))

\* a line of more tokens than two times TOKEN_BUFSIZE was split
C19_Witness ==
    /\ pc = "execute"
    /\ Argc(args) > 2 * TOKEN_BUFSIZE
    /\ Len(args) = 3 * TOKEN_BUFSIZE
    /\ args[2 * TOKEN_BUFSIZE] = Str(Tok(2 * TOKEN_BUFSIZE))

\* C20: every piece the shell prints reaches stdout once: what was written
\* and what the shell still buffers are, together, what was pending at the
\* prompt and what the shell printed since, also when a child whose exec
\* failed has left through exit().
C20_OutputReachesStreamOnce == WrittenOnce

=============================================================================
